---- MODULE Spec2Model ----
(***************************************************************************)
(* A model of the trivia API backend (backend/flaskr/__init__.py).         *)
(*                                                                         *)
(* The state is the question table, the serial that hands out ids, the     *)
(* category table, and the request being served with its response.  Every  *)
(* route handler is one action; POST /quizzes is three (the handler up to  *)
(* its loop, the loop's test and the loop's body): its loop need not end.  *)
(* A request is served to its end before the next one starts.              *)
(*                                                                         *)
(* The persistence layer (models.py: Question, Category, insert, delete,   *)
(* format) is not among the sources; it is modelled from the data model    *)
(* of the specification: a table of rows in insertion order, ids from a    *)
(* serial, an integer difficulty column.  The store is taken to work: a    *)
(* query answers, and a mutation raises only when the store rejects the    *)
(* row it is given.                                                        *)
(***************************************************************************)
EXTENDS Integers, Sequences, FiniteSets, TLC

VARIABLES
    questions,   \* the Question table: a sequence of rows, in store order
    next_id,     \* the serial the store assigns the next Question.id from
    categories,  \* the Category table: id -> type label
    pc,          \* "idle", or where POST /quizzes is: "check", "redraw"
    quiz,        \* the locals of get_random_quiz_question while it runs
    request,     \* the request served last (or being served)
    response     \* its response: [status, body]

vars == <<questions, next_id, categories, pc, quiz, request, response>>

----------------------------------------------------------------------------
(* Bounds of the model *)

\* ids the serial hands out under Spec
MaxId == 2
\* length of a previous_questions list
MaxPrev == 3
\* ids the serial hands out under PageSpec
MaxTotal == 21
\* largest page number requested
MaxPage == 3

----------------------------------------------------------------------------
(* Program constants *)

QUESTIONS_PER_PAGE == 10

----------------------------------------------------------------------------
(* JSON values of a request body: null (an absent key reads as None with   *)
(* body.get), an integer, or a string.  A string is an index into Strings, *)
(* strings being sequences of characters so that ilike can be computed.    *)

Strings == << <<>>, <<"a">>, <<"A", "b">>, <<"B">> >>

Text(k) == IF k \in DOMAIN Strings THEN Strings[k] ELSE <<>>

Null == [t |-> "null", v |-> 0]
JInt(n) == [t |-> "int", v |-> n]
JStr(k) == [t |-> "str", v |-> k]

\* Python truthiness of a JSON value, as `if (body.get('searchTerm'))` reads it
Truthy(j) ==
    CASE j.t = "null" -> FALSE
      [] j.t = "int" -> j.v # 0
      [] j.t = "str" -> Len(Text(j.v)) > 0

Min(a, b) == IF a < b THEN a ELSE b
Max(a, b) == IF a > b THEN a ELSE b

----------------------------------------------------------------------------
(* Responses *)

Ok(body) == [status |-> 200, body |-> body]

\* abort(code), answered by the error handler registered for the code
Abort(code) ==
    [status |-> code,
     body |-> [success |-> FALSE, error |-> code,
               message |-> CASE code = 400 -> "bad request"
                             [] code = 404 -> "resource not found"
                             [] code = 422 -> "unprocessable"
                             [] OTHER -> "internal server error"]]

NoQuiz == [questions |-> <<>>, previous |-> <<>>, total |-> 0, question |-> Null]

----------------------------------------------------------------------------
(* The persistence layer *)

\* Question.format()
QuestionFormat(q) ==
    [id |-> q.id, question |-> q.question, answer |-> q.answer,
     category |-> q.category, difficulty |-> q.difficulty]

\* the store takes a row whose difficulty is an integer; Question.insert()
\* raises on any other
StoreAccepts(row) == row.difficulty.t = "int"

\* fault: the lookup without its filter
QueryById_unfiltered(id) == questions

\* Question.query.filter_by(id=id).one_or_none(): the rows with that id
QueryById(id) == SelectSeq(questions, LAMBDA q : q.id = id)

\* fault: the category query without its filter
QueryByCategory_unfiltered(c) == questions

\* Question.query.filter_by(category=c).all()
QueryByCategory(c) == SelectSeq(questions, LAMBDA q : q.category = JInt(c))

\* question.delete(): the table without that row
DeleteRow(row) == SelectSeq(questions, LAMBDA q : q.id # row.id)

----------------------------------------------------------------------------
(* paginate_questions *)

\* Python's list[start:end]: a negative index counts from the end, and both
\* are clipped to the list
PyIndex(i, n) == IF i < 0 THEN Max(i + n, 0) ELSE Min(i, n)

PySlice(s, start, end) ==
    LET lo == PyIndex(start, Len(s))
        hi == PyIndex(end, Len(s))
    IN  IF lo < hi THEN SubSeq(s, lo + 1, hi) ELSE <<>>

\* fault: pages counted from 0
PageStart_from_zero(page) == page * QUESTIONS_PER_PAGE

PageStart(page) == (page - 1) * QUESTIONS_PER_PAGE

paginate_questions(page, selection) ==
    LET start == PageStart(page)
        end == start + QUESTIONS_PER_PAGE
        formatted == [i \in 1..Len(selection) |-> QuestionFormat(selection[i])]
    IN  PySlice(formatted, start, end)

----------------------------------------------------------------------------
Init ==
    /\ questions = <<>>
    /\ next_id = 1
    /\ categories = <<"Science", "Art">>
    /\ pc = "idle"
    /\ quiz = NoQuiz
    /\ request = [op |-> "none"]
    /\ response = Ok([success |-> TRUE])

\* the handlers answer and return to idle
Answer(req, resp) ==
    /\ request' = req
    /\ response' = resp
    /\ pc' = "idle"
    /\ quiz' = NoQuiz

get_categories ==
    /\ pc = "idle"
    /\ Answer([op |-> "get_categories"],
              IF Len(categories) = 0
              THEN Abort(404)
              ELSE Ok([success |-> TRUE, categories |-> categories]))
    /\ UNCHANGED <<questions, next_id, categories>>

get_questions(page) ==
    /\ pc = "idle"
    /\ LET selection == questions
           total_questions == Len(selection)
           current_questions == paginate_questions(page, selection)
       IN  Answer([op |-> "get_questions", page |-> page],
                  IF Len(current_questions) = 0
                  THEN Abort(404)
                  ELSE Ok([success |-> TRUE,
                           questions |-> current_questions,
                           total_questions |-> total_questions,
                           categories |-> categories]))
    /\ UNCHANGED <<questions, next_id, categories>>

----------------------------------------------------------------------------
(* DELETE /questions/<id> *)

\* the try block: its response (or the HTTP exception abort raised) and the
\* table it leaves
delete_try(id) ==
    LET found == QueryById(id)
    IN  IF Len(found) = 0
        THEN [raised |-> TRUE, resp |-> Abort(404), table |-> questions]
        ELSE [raised |-> FALSE,
              resp |-> Ok([success |-> TRUE, deleted |-> id]),
              table |-> DeleteRow(found[1])]

\* fault: an except that lets abort's HTTP exception through
delete_except_reraises(outcome) == outcome.resp

\* the bare except around it: whatever was raised, abort(404)'s exception
\* included, ends as abort(422)
delete_except(outcome) ==
    IF outcome.raised THEN Abort(422) ELSE outcome.resp

delete_question(id) ==
    /\ pc = "idle"
    /\ LET outcome == delete_try(id)
       IN  /\ questions' = outcome.table
           /\ Answer([op |-> "delete", id |-> id], delete_except(outcome))
    /\ UNCHANGED <<next_id, categories>>

----------------------------------------------------------------------------
(* POST /questions: search or create *)

Lower(c) == CASE c = "A" -> "a" [] c = "B" -> "b" [] OTHER -> c

\* fault: LIKE in place of ILIKE, letter case kept
like(text, term) ==
    \E i \in 0..(Len(text) - Len(term)) :
        \A j \in 1..Len(term) : text[i + j] = term[j]

\* text ILIKE '%term%': term occurs in text, letter case ignored
ilike(text, term) ==
    \E i \in 0..(Len(text) - Len(term)) :
        \A j \in 1..Len(term) : Lower(text[i + j]) = Lower(term[j])

search_selection(search_term) ==
    SelectSeq(questions,
              LAMBDA q : ilike(Text(q.question.v), Text(search_term.v)))

\* fault: the check without its last operand
missing_fields_but_category(body) ==
    \/ body.question = Null
    \/ body.answer = Null
    \/ body.difficulty = Null

\* `is None` of any of the four fields
missing_fields(body) ==
    \/ body.question = Null
    \/ body.answer = Null
    \/ body.difficulty = Null
    \/ body.category = Null

RECURSIVE OrderById(_)
\* Question.query.order_by(Question.id).all()
OrderById(s) ==
    IF Len(s) = 0 THEN <<>>
    ELSE LET m == CHOOSE i \in 1..Len(s) : \A j \in 1..Len(s) : s[i].id <= s[j].id
             rest == [k \in 1..(Len(s) - 1) |-> IF k < m THEN s[k] ELSE s[k + 1]]
         IN  <<s[m]>> \o OrderById(rest)

\* fault: `created` taken from the row count
created_response_count(row, table, page) ==
    Ok([success |-> TRUE,
        created |-> Len(table),
        question_created |-> row.question,
        questions |-> paginate_questions(page, OrderById(table)),
        total_questions |-> Len(table)])

\* the response of a successful create, built after the insert
created_response(row, table, page) ==
    Ok([success |-> TRUE,
        created |-> row.id,
        question_created |-> row.question,
        questions |-> paginate_questions(page, OrderById(table)),
        total_questions |-> Len(table)])

post_question(body, page) ==
    /\ pc = "idle"
    /\ LET req == [op |-> "post", body |-> body, page |-> page]
       IN  IF Truthy(body.searchTerm)
           THEN LET selection == search_selection(body.searchTerm)
                IN  /\ Answer(req,
                              IF Len(selection) = 0
                              THEN Abort(404)
                              ELSE Ok([success |-> TRUE,
                                       questions |-> paginate_questions(page, selection),
                                       total_questions |-> Len(questions)]))
                    /\ UNCHANGED <<questions, next_id>>
           ELSE IF missing_fields(body)
           THEN /\ Answer(req, Abort(422))
                /\ UNCHANGED <<questions, next_id>>
           ELSE LET row == [id |-> next_id, question |-> body.question,
                            answer |-> body.answer, category |-> body.category,
                            difficulty |-> body.difficulty]
                IN  IF StoreAccepts(row)
                    THEN /\ questions' = Append(questions, row)
                         /\ next_id' = next_id + 1
                         /\ Answer(req, created_response(row, questions', page))
                    ELSE \* question.insert() raised: the bare except
                         /\ Answer(req, Abort(422))
                         /\ UNCHANGED <<questions, next_id>>
    /\ UNCHANGED categories

----------------------------------------------------------------------------
(* GET /categories/<id>/questions *)

get_questions_by_category(id, page) ==
    /\ pc = "idle"
    /\ Answer([op |-> "by_category", id |-> id, page |-> page],
              IF id \notin DOMAIN categories
              THEN Abort(400)
              ELSE LET selection == QueryByCategory(id)
                   IN  Ok([success |-> TRUE,
                           questions |-> paginate_questions(page, selection),
                           total_questions |-> Len(questions),
                           current_category |-> categories[id]]))
    /\ UNCHANGED <<questions, next_id, categories>>

----------------------------------------------------------------------------
(* POST /quizzes *)

JList(s) == [t |-> "list", v |-> s]
\* a quiz_category object, of which only the id is read
JCat(id) == [t |-> "obj", v |-> id]

\* the candidate questions of a quiz_category id
quiz_questions(category_id) ==
    IF category_id = 0 THEN questions ELSE QueryByCategory(category_id)

\* fault: only the first previous id is compared
check_if_used_first(question, previous) ==
    Len(previous) > 0 /\ previous[1] = question.id

check_if_used(question, previous) ==
    \E i \in 1..Len(previous) : previous[i] = question.id

\* the handler up to its loop: the checks, the candidates, the first draw
quiz_start(body) ==
    /\ pc = "idle"
    /\ LET req == [op |-> "quiz", body |-> body]
           previous == body.previous_questions
           category == body.quiz_category
       IN  IF category = Null \/ previous = Null
           THEN Answer(req, Abort(400))
           ELSE LET qs == quiz_questions(category.v)
                IN  IF Len(qs) = 0
                    THEN \* random.randrange(0, 0, 1) raises ValueError
                         Answer(req, Abort(500))
                    ELSE \E i \in 1..Len(qs) :
                             /\ quiz' = [questions |-> qs, previous |-> previous.v,
                                         total |-> Len(qs), question |-> qs[i]]
                             /\ pc' = "check"
                             /\ request' = req
                             /\ UNCHANGED response
    /\ UNCHANGED <<questions, next_id, categories>>

\* the test of the while condition: an unused question is returned
quiz_check ==
    /\ pc = "check"
    /\ IF check_if_used(quiz.question, quiz.previous)
       THEN /\ pc' = "redraw"
            /\ UNCHANGED <<quiz, request, response>>
       ELSE Answer(request, Ok([success |-> TRUE,
                                question |-> QuestionFormat(quiz.question)]))
    /\ UNCHANGED <<questions, next_id, categories>>

\* the body of the while loop: another draw, then the exhaustion test
quiz_redraw ==
    /\ pc = "redraw"
    /\ \E i \in 1..Len(quiz.questions) :
           IF Len(quiz.previous) = quiz.total
           THEN Answer(request, Ok([success |-> TRUE]))
           ELSE /\ quiz' = [quiz EXCEPT !.question = quiz.questions[i]]
                /\ pc' = "check"
                /\ UNCHANGED <<request, response>>
    /\ UNCHANGED <<questions, next_id, categories>>

----------------------------------------------------------------------------
(* Requests *)

Body(s, q, a, d, c) ==
    [searchTerm |-> s, question |-> q, answer |-> a, difficulty |-> d,
     category |-> c]

ValidBody == Body(Null, JStr(2), JStr(2), JInt(1), JInt(1))

\* creates the store takes
ValidBodies ==
    {ValidBody,
     Body(Null, JStr(3), JStr(2), JInt(1), JInt(1)),
     Body(Null, JStr(3), JStr(2), JInt(1), JInt(2))}

\* creates with a field null or absent, with a difficulty that is no integer,
\* and with an empty searchTerm
CreateBodies ==
    ValidBodies
    \cup {[ValidBody EXCEPT !.question = Null],
          [ValidBody EXCEPT !.answer = Null],
          [ValidBody EXCEPT !.difficulty = Null],
          [ValidBody EXCEPT !.category = Null],
          Body(Null, Null, Null, Null, Null),
          [ValidBody EXCEPT !.difficulty = JStr(2)],
          [ValidBody EXCEPT !.searchTerm = JStr(1)]}

SearchBodies ==
    {Body(JStr(2), Null, Null, Null, Null),
     Body(JStr(4), Null, Null, Null, Null),
     [ValidBody EXCEPT !.searchTerm = JStr(4)]}

SpecPages == {0, 1, 2}

Pages == -1..MaxPage

Ids == 1..(MaxId + 1)

CategoryIds == {1, 2, 3}

PrevIds == {1, 2}

RECURSIVE SeqsUpTo(_, _)
SeqsUpTo(S, n) ==
    IF n = 0 THEN {<<>>}
    ELSE LET shorter == SeqsUpTo(S, n - 1)
         IN  shorter \cup {Append(s, x) : s \in shorter, x \in S}

QuizBody(p, c) == [previous_questions |-> p, quiz_category |-> c]

QuizBodies ==
    {QuizBody(JList(s), JCat(c)) : s \in SeqsUpTo(PrevIds, MaxPrev), c \in 0..2}
    \cup {QuizBody(Null, JCat(0)), QuizBody(JList(<<>>), Null)}

\* a search leaves the store alone; a create is served while the serial is
\* within the bound
Search == \E body \in SearchBodies, page \in SpecPages : post_question(body, page)

Create ==
    /\ next_id <= MaxId
    /\ \E body \in CreateBodies, page \in SpecPages : post_question(body, page)

Next ==
    \/ get_categories
    \/ \E page \in SpecPages : get_questions(page)
    \/ \E id \in Ids : delete_question(id)
    \/ Search
    \/ Create
    \/ \E id \in CategoryIds, page \in SpecPages : get_questions_by_category(id, page)
    \/ \E body \in QuizBodies : quiz_start(body)
    \/ quiz_check
    \/ quiz_redraw

Spec == Init /\ [][Next]_vars

\* a request being served keeps running: the loop of POST /quizzes takes its
\* next step
FairSpec == Spec /\ WF_vars(quiz_check) /\ WF_vars(quiz_redraw)

----------------------------------------------------------------------------
(* The paginated listing over a bank of several pages *)

PageDeleteIds == {1, 11}

PageCreate ==
    /\ next_id <= MaxTotal
    /\ post_question(ValidBody, 1)

PageNext ==
    \/ PageCreate
    \/ \E page \in Pages : get_questions(page)
    \/ \E id \in PageDeleteIds : delete_question(id)

PageSpec == Init /\ [][PageNext]_vars

----------------------------------------------------------------------------
(* Properties *)

RowIds(table) == {table[i].id : i \in 1..Len(table)}

\* the rows of the stored bank a quiz over category id c draws from
PoolOf(c) ==
    {i \in 1..Len(questions) : c = 0 \/ questions[i].category = JInt(c)}

InList(x, list) == \E j \in 1..Len(list) : list[j] = x

\* POST /quizzes has answered 200
QuizAnswered ==
    /\ request.op = "quiz"
    /\ pc = "idle"
    /\ response.status = 200

\* the last request was a create (POST /questions without a usable searchTerm)
IsCreate(req) == req.op = "post" /\ ~Truthy(req.body.searchTerm)

IsSearch(req) == req.op = "post" /\ Truthy(req.body.searchTerm)

AllPresent(b) ==
    /\ b.question # Null
    /\ b.answer # Null
    /\ b.difficulty # Null
    /\ b.category # Null

\* term occurs in text, letter case ignored
ContainsCI(text, term) ==
    \E k \in 1..(Len(text) + 1) :
        /\ k + Len(term) - 1 <= Len(text)
        /\ [j \in 1..Len(term) |-> Lower(text[k + j - 1])]
               = [j \in 1..Len(term) |-> Lower(term[j])]

\* the positions of the stored questions whose text contains the search term
Matches(term) ==
    {i \in 1..Len(questions) :
        ContainsCI(Text(questions[i].question.v), Text(term.v))}

(* C1: whenever POST /quizzes answers with a `question`, that question is a
   stored question of the candidate pool (any question when the category id
   is 0, otherwise one whose category is the requested id) and its id is not
   in previous_questions. *)
C1_QuizQuestionIsUnseenCandidate ==
    (QuizAnswered /\ "question" \in DOMAIN response.body) =>
        LET q == response.body.question
        IN  /\ \E i \in PoolOf(request.body.quiz_category.v) :
                   QuestionFormat(questions[i]) = q
            /\ ~InList(q.id, request.body.previous_questions.v)

\* a question is answered although some candidate of the pool was in
\* previous_questions
C1_Witness ==
    /\ QuizAnswered
    /\ "question" \in DOMAIN response.body
    /\ request.body.quiz_category.v # 0
    /\ \E i \in PoolOf(request.body.quiz_category.v) :
           InList(questions[i].id, request.body.previous_questions.v)

\* every candidate the running quiz loaded is in its previous_questions
QuizCovered ==
    /\ pc \in {"check", "redraw"}
    /\ \A i \in 1..Len(quiz.questions) :
           InList(quiz.questions[i].id, quiz.previous)

(* C2: when previous_questions holds the id of every candidate of the pool,
   POST /quizzes terminates and answers success without a `question`. *)
C2_CoveredPoolEndsExhausted ==
    QuizCovered ~> (QuizAnswered /\ "question" \notin DOMAIN response.body)

(* C3: POST /quizzes never answers the exhausted-pool response (success
   without `question`) while a candidate whose id is not in
   previous_questions exists. *)
C3_NoExhaustedWhileUnseen ==
    (QuizAnswered /\ "question" \notin DOMAIN response.body) =>
        \A i \in PoolOf(request.body.quiz_category.v) :
            InList(questions[i].id, request.body.previous_questions.v)

(* C4: a create with one of question, answer, difficulty, category null or
   absent answers 422 and leaves the stored questions unchanged. *)
C4_MissingFieldIs422 ==
    [][(IsCreate(request') /\ ~AllPresent(request'.body)) =>
           /\ response'.status = 422
           /\ questions' = questions]_vars

C4_Witness ==
    /\ IsCreate(request)
    /\ ~AllPresent(request.body)
    /\ request.body.question # Null
    /\ response.status = 422
    /\ Len(questions) > 0

\* the step added exactly one row, kept every row there was, and answered
\* with the id of the new row, under which it is the one row found
CreatedOne ==
    /\ Len(questions') = Len(questions) + 1
    /\ \A i \in 1..Len(questions) : questions'[i] = questions[i]
    /\ response'.status = 200
    /\ LET new == questions'[Len(questions')]
       IN  /\ response'.body.created = new.id
           /\ new.question = request'.body.question
           /\ new.id \notin RowIds(questions)

(* C5 as stated: a create with all four fields present adds exactly one
   row, leaves the others as they were and answers with the new row's id. *)
C5_Original ==
    [][(IsCreate(request') /\ AllPresent(request'.body)) => CreatedOne]_vars

(* C5, amended: a create with all four fields present whose row the store
   takes (an integer difficulty) adds exactly one row, leaves the others as
   they were and answers with the new row's id, under which it is found;
   when the insert raises, the answer is 422 and nothing is stored. *)
C5_CreateAddsOneRow ==
    [][(IsCreate(request') /\ AllPresent(request'.body)) =>
           IF request'.body.difficulty.t = "int"
           THEN CreatedOne
           ELSE response'.status = 422 /\ questions' = questions]_vars

\* a create answered 200 into a bank that held a row and had lost one
C5_Witness ==
    /\ IsCreate(request)
    /\ response.status = 200
    /\ Len(questions) >= 1
    /\ response.body.created \in RowIds(questions)
    /\ response.body.created # Len(questions)

(* C6: DELETE of an id that exists answers success with `deleted` that id
   and removes that row and no other; no question has that id afterwards,
   and only a create adds a row. *)
C6_DeleteRemovesExactlyThatRow ==
    [][/\ (request'.op = "delete" /\ request'.id \in RowIds(questions)) =>
              LET id == request'.id
              IN  /\ response'.status = 200
                  /\ response'.body.deleted = id
                  /\ Len(questions') = Len(questions) - 1
                  /\ questions' = SelectSeq(questions, LAMBDA q : q.id # id)
                  /\ id \notin RowIds(questions')
       /\ (request'.op # "post") => (RowIds(questions') \subseteq RowIds(questions))
      ]_vars

\* a delete answered 200 and another row is still there
C6_Witness ==
    /\ request.op = "delete"
    /\ response.status = 200
    /\ response.body.deleted = request.id
    /\ Len(questions) >= 1

(* C7: DELETE of an id no stored question has answers 422, not 404, and
   leaves the stored questions unchanged. *)
C7_DeleteMissingIs422 ==
    [][(request'.op = "delete" /\ request'.id \notin RowIds(questions)) =>
           /\ response'.status = 422
           /\ response'.status # 404
           /\ questions' = questions]_vars

\* a delete of an id once handed out, now gone, answered 422
C7_Witness ==
    /\ request.op = "delete"
    /\ response.status = 422
    /\ request.id \notin RowIds(questions)
    /\ Len(questions) > 0

(* C8: GET /questions?page=p for p >= 1 over a bank of `total` questions
   answers 200 with the min(10, total - (p-1)*10) questions at positions
   [(p-1)*10, p*10) of the full list and total_questions = total when
   (p-1)*10 < total, and 404 otherwise. *)
C8_PageOfTen ==
    (request.op = "get_questions" /\ request.page >= 1) =>
        LET total == Len(questions)
            first == (request.page - 1) * 10
        IN  IF first < total
            THEN /\ response.status = 200
                 /\ Len(response.body.questions) = Min(10, total - first)
                 /\ \A i \in 1..Len(response.body.questions) :
                        response.body.questions[i]
                            = QuestionFormat(questions[first + i])
                 /\ response.body.total_questions = total
            ELSE response.status = 404

\* a last, partial page of a bank that lost a row
C8_Witness ==
    /\ request.op = "get_questions"
    /\ request.page = 2
    /\ response.status = 200
    /\ Len(response.body.questions) \in 1..9
    /\ next_id > Len(questions) + 1

\* what a search answers apart from the one-match case
SearchAnswer ==
    LET m == Matches(request.body.searchTerm)
    IN  /\ (m = {}) => response.status = 404
        /\ (response.status = 200) =>
               /\ \A k \in 1..Len(response.body.questions) :
                      \E i \in m : response.body.questions[k]
                                       = QuestionFormat(questions[i])
               /\ response.body.total_questions = Len(questions)

\* exactly one stored question matches and the answer holds exactly that row
OneMatchOneRow ==
    LET m == Matches(request.body.searchTerm)
    IN  (Cardinality(m) = 1) =>
            /\ response.status = 200
            /\ response.body.questions
                   = <<QuestionFormat(questions[CHOOSE i \in m : TRUE])>>

(* C9 as stated: a search answers 404 when no stored question contains the
   term; with exactly one match it answers 200 with exactly that row; every
   returned question matches, and total_questions is the size of the bank. *)
C9_Original ==
    IsSearch(request) => (SearchAnswer /\ OneMatchOneRow)

(* C9, amended: as stated, but the one matching row is returned on page 1
   (the default); on any other page the answer is 200 with no questions. *)
C9_SearchByTerm ==
    IsSearch(request) =>
        /\ SearchAnswer
        /\ (request.page = 1) => OneMatchOneRow
        /\ (request.page # 1 /\ Cardinality(Matches(request.body.searchTerm)) = 1) =>
               /\ response.status = 200
               /\ response.body.questions = <<>>

\* one of several stored questions matched, by letter case ignored
C9_Witness ==
    /\ IsSearch(request)
    /\ request.page = 1
    /\ response.status = 200
    /\ Len(response.body.questions) = 1
    /\ Len(questions) >= 2
    /\ request.body.searchTerm = JStr(4)

(* C10: GET /categories/<id>/questions answers 400 when no Category has the
   id; otherwise 200, also when no question belongs to it (`questions` is
   then empty), every returned question has that category, and
   current_category is the Category's type. *)
C10_QuestionsByCategory ==
    (request.op = "by_category") =>
        IF request.id \notin DOMAIN categories
        THEN response.status = 400
        ELSE /\ response.status = 200
             /\ \A k \in 1..Len(response.body.questions) :
                    response.body.questions[k].category = JInt(request.id)
             /\ response.body.current_category = categories[request.id]
             /\ (PoolOf(request.id) = {}) => response.body.questions = <<>>
             /\ (request.page = 1) =>
                    Len(response.body.questions)
                        = Min(10, Cardinality(PoolOf(request.id)))

\* the category's question is returned and another category's is not
C10_Witness ==
    /\ request.op = "by_category"
    /\ response.status = 200
    /\ Len(response.body.questions) >= 1
    /\ Len(questions) > Len(response.body.questions)

====
